---- MODULE Spec2Model ----
(***************************************************************************)
(* Model of BigQueryWrapper (src/bigquery-wrapper.py): one client object   *)
(* holding a project, an optional dataset id, a dataset reference, the     *)
(* cached dataset metadata and the cached table list, talking to a remote  *)
(* service whose content is fixed and whose calls may fail.                *)
(***************************************************************************)
EXTENDS Integers, Sequences, FiniteSets, TLC

\* ---------------------------------------------------------------- bounds
MaxFields == 2
MaxNested == 1

\* ------------------------------------------------- attributes and errors
\* A Python attribute is either never assigned (Unset) or holds a value.
Unset == <<>>
Set(x) == <<x>>
Val(o) == o[1]

None == "<None>"

\* `if dataset_id:` is a truthiness test: None and "" are both falsy.
Truthy(d) == d # None /\ d # ""

NoError == [type |-> "none", msg |-> ""]
Err(t, m) == [type |-> t, msg |-> m]

Ok(v) == [ok |-> TRUE, value |-> <<v>>, error |-> NoError]
Fail(e) == [ok |-> FALSE, value |-> <<>>, error |-> e]

Call(name, arg, r) == [call |-> name, arg |-> arg, result |-> r]

\* ------------------------------------------------------ the remote service
Projects == {"p1", "p2", "p3"}
DatasetIds == {"", "orders", "events", "missing"}
TableIds == {"t1", "t2"}

\* datasets of a project, in the order list_datasets enumerates them
RemoteDatasets(p) ==
  IF p = "p1" THEN <<"events", "orders">>
  ELSE IF p = "p2" THEN <<"orders">>
  ELSE <<>>

\* tables of a dataset, in the order list_tables enumerates them
RemoteTables(p, d) ==
  IF p = "p1" /\ d = "orders" THEN <<"t1", "t2">>
  ELSE IF p = "p2" /\ d = "orders" THEN <<"t2">>
  ELSE <<>>

SeqRange(s) == {s[i] : i \in 1..Len(s)}

DatasetExists(p, d) == d \in SeqRange(RemoteDatasets(p))
TableExists(p, d, t) == DatasetExists(p, d) /\ t \in SeqRange(RemoteTables(p, d))

DatasetMeta(p, d) ==
  [project |-> p, dataset_id |-> d,
   friendly_name |-> <<"friendly_name", p, d>>,
   created |-> <<"created", p, d>>,
   modified |-> <<"modified", p, d>>,
   default_table_expiration_ms |-> <<"expiration", p, d>>,
   location |-> <<"location", p, d>>,
   description |-> <<"description", p, d>>]

DatasetListItem(p, d) == [project |-> p, dataset_id |-> d]

TableListItem(p, d, t) == [project |-> p, dataset_id |-> d, table_id |-> t]

Table(p, d, t, schema) ==
  [project |-> p, dataset_id |-> d, table_id |-> t,
   friendly_name |-> <<"friendly_name", p, d, t>>,
   created |-> <<"created", p, d, t>>,
   modified |-> <<"modified", p, d, t>>,
   expires |-> <<"expires", p, d, t>>,
   num_rows |-> <<"num_rows", p, d, t>>,
   num_bytes |-> <<"num_bytes", p, d, t>>,
   description |-> <<"description", p, d, t>>,
   schema |-> schema]

\* schema fields: a leaf column, and RECORD columns nesting leaf columns
SeqsUpTo(S, lo, hi) == UNION {[1..n -> S] : n \in lo..hi}

LeafFields ==
  {[name |-> "id", field_type |-> "INTEGER", mode |-> "REQUIRED",
    description |-> "key", fields |-> <<>>]}

NestedFields ==
  {[name |-> "nested", field_type |-> "STRING", mode |-> "NULLABLE",
    description |-> "text", fields |-> <<>>]}

RecordFields ==
  {[name |-> "payload", field_type |-> "RECORD", mode |-> "REPEATED",
    description |-> "struct", fields |-> fs] :
       fs \in SeqsUpTo(NestedFields, 1, MaxNested)}

Schemas == SeqsUpTo(LeafFields \cup RecordFields, 0, MaxFields)

\* client.dataset(dataset_id): a reference carrying the client's project
\* as it is at the time of the call
DatasetReference(p, d) == <<p, d>>

ServiceError == Err("ServiceError", "transient service failure")
NotFound(what) == Err("NotFound", what)

\* client.get_dataset(ref)
get_dataset(ref, fail) ==
  IF fail THEN Fail(ServiceError)
  ELSE IF DatasetExists(ref[1], ref[2]) THEN Ok(DatasetMeta(ref[1], ref[2]))
  ELSE Fail(NotFound(ref))

\* list(client.list_tables(dataset))
list_tables(ds, fail) ==
  IF fail THEN Fail(ServiceError)
  ELSE Ok([i \in 1..Len(RemoteTables(ds.project, ds.dataset_id)) |->
             TableListItem(ds.project, ds.dataset_id,
                           RemoteTables(ds.project, ds.dataset_id)[i])])

\* list(client.list_datasets())
list_datasets(p, fail) ==
  IF fail THEN Fail(ServiceError)
  ELSE Ok([i \in 1..Len(RemoteDatasets(p)) |->
             DatasetListItem(p, RemoteDatasets(p)[i])])

\* client.get_table(dataset_ref.table(table_id))
get_table(ref, t, schema, fail) ==
  IF fail THEN Fail(ServiceError)
  ELSE IF TableExists(ref[1], ref[2], t) THEN Ok(Table(ref[1], ref[2], t, schema))
  ELSE Fail(NotFound(<<ref[1], ref[2], t>>))

\* the schemas a get_table call through ref may carry in its response
ResponseSchemas(ref, t, fail) ==
  IF ref # Unset /\ ~fail /\ TableExists(Val(ref)[1], Val(ref)[2], t)
  THEN Schemas ELSE {<<>>}

\* bigquery.Client(project=project_id)
CredentialOutcomes == {"ok", "DefaultCredentialsError", "OtherError"}

AuthInstructions == "No authentication credentials found. Please authenticate using the Google Cloud SDK with the command 'gcloud auth application-default login'."

CreateClient(p, cred) ==
  IF cred = "ok" THEN Ok(p)
  ELSE IF cred = "DefaultCredentialsError"
       THEN Fail(Err("DefaultCredentialsError", "Could not automatically determine credentials."))
       ELSE Fail(Err("OtherError", "client creation failed"))

\* ------------------------------------------------------------- the client
VARIABLES constructed, project, dataset_id, dataset_ref, dataset, tables,
          op, error, output, calls, log, afterSelect

vars == <<constructed, project, dataset_id, dataset_ref, dataset, tables,
          op, error, output, calls, log, afterSelect>>

\* was the operation that has just completed a successful select_dataset
SelectedOk == op.name = "select_dataset" /\ error = NoError

Init ==
  /\ constructed = "none"
  /\ project = Unset
  /\ dataset_id = Unset
  /\ dataset_ref = Unset
  /\ dataset = Unset
  /\ tables = Unset
  /\ op = [name |-> "none", arg |-> <<>>]
  /\ error = NoError
  /\ output = <<>>
  /\ calls = <<>>
  /\ log = <<>>
  /\ afterSelect = FALSE

\* variant: the except clause is missing, the library's error passes through
authenticate_client_uncaught(p, cred) ==
  LET r == CreateClient(p, cred) IN
  IF r.ok THEN [ok |-> TRUE, client |-> Set(p), error |-> NoError,
                log |-> <<"info: Authentication successful.">>]
  ELSE [ok |-> FALSE, client |-> Unset, error |-> r.error, log |-> <<>>]

\* authenticate_client: DefaultCredentialsError is caught and raised again
\* with the instructions; any other exception passes through.
authenticate_client(p, cred) ==
  LET r == CreateClient(p, cred) IN
  IF r.ok THEN [ok |-> TRUE, client |-> Set(p), error |-> NoError,
                log |-> <<"info: Authentication successful.">>]
  ELSE IF r.error.type = "DefaultCredentialsError"
       THEN [ok |-> FALSE, client |-> Unset,
             error |-> Err("DefaultCredentialsError", AuthInstructions), log |-> <<>>]
       ELSE [ok |-> FALSE, client |-> Unset, error |-> r.error, log |-> <<>>]

FetchFailures == {"none", "get_dataset", "list_tables"}

\* variant: the table list is not assigned after a successful listing
fetch_dataset_only(ref, dataset0, tables0, f) ==
  LET r1 == get_dataset(ref, f = "get_dataset")
      c1 == Call("get_dataset", ref, r1)
      r2 == list_tables(Val(r1.value), f = "list_tables")
      c2 == Call("list_tables", ref, r2)
  IN
  IF ~r1.ok
  THEN [dataset |-> dataset0, tables |-> tables0, error |-> r1.error,
        calls |-> <<c1>>, log |-> <<>>]
  ELSE [dataset |-> r1.value, tables |-> tables0, error |-> r2.error,
        calls |-> <<c1, c2>>, log |-> <<>>]

\* _fetch_dataset_and_tables: dataset0/tables0 are self.dataset/self.tables
\* before the call; each attribute is assigned only if its call returned.
fetch_dataset_and_tables(ref, dataset0, tables0, f) ==
  LET r1 == get_dataset(ref, f = "get_dataset")
      c1 == Call("get_dataset", ref, r1)
  IN
  IF ~r1.ok
  THEN [dataset |-> dataset0, tables |-> tables0, error |-> r1.error,
        calls |-> <<c1>>,
        log |-> IF r1.error.type = "NotFound"
                THEN <<"error: Dataset does not exist.">> ELSE <<>>]
  ELSE LET r2 == list_tables(Val(r1.value), f = "list_tables")
           c2 == Call("list_tables", ref, r2)
       IN
       IF ~r2.ok
       THEN [dataset |-> r1.value, tables |-> tables0, error |-> r2.error,
             calls |-> <<c1, c2>>,
             log |-> IF r2.error.type = "NotFound"
                     THEN <<"error: Dataset does not exist.">> ELSE <<>>]
       ELSE [dataset |-> r1.value, tables |-> r2.value, error |-> NoError,
             calls |-> <<c1, c2>>, log |-> <<>>]

\* BigQueryWrapper(project_id, dataset_id): one client is constructed; a
\* construction that raised can be tried again.
Connect(p, d, cred, f) ==
  LET a == authenticate_client(p, cred)
      r == fetch_dataset_and_tables(DatasetReference(p, d), Unset, Unset, f)
  IN
  /\ constructed # "ok"
  /\ op' = [name |-> "connect", arg |-> <<p, d, cred>>]
  /\ afterSelect' = SelectedOk
  /\ output' = <<>>
  /\ IF ~a.ok
     THEN /\ constructed' = "failed"
          /\ project' = Unset
          /\ dataset_id' = Unset
          /\ dataset_ref' = Unset
          /\ dataset' = Unset
          /\ tables' = Unset
          /\ error' = a.error
          /\ calls' = <<>>
          /\ log' = a.log
     ELSE /\ project' = a.client
          /\ dataset_id' = Set(d)
          /\ IF Truthy(d)
             THEN /\ dataset_ref' = Set(DatasetReference(p, d))
                  /\ dataset' = r.dataset
                  /\ tables' = r.tables
                  /\ error' = r.error
                  /\ calls' = r.calls
                  /\ log' = a.log \o r.log
                  /\ constructed' = IF r.error = NoError THEN "ok" ELSE "failed"
             ELSE /\ dataset_ref' = Unset
                  /\ dataset' = Unset
                  /\ tables' = Unset
                  /\ error' = NoError
                  /\ calls' = <<>>
                  /\ log' = a.log
                  /\ constructed' = "ok"

\* variant: switching the project also drops the cached dataset context
SelectProjectAndReset(p) ==
  /\ constructed = "ok"
  /\ project' = Set(p)
  /\ dataset' = Unset
  /\ tables' = Unset
  /\ op' = [name |-> "select_project", arg |-> <<p>>]
  /\ afterSelect' = SelectedOk
  /\ error' = NoError
  /\ output' = <<>>
  /\ calls' = <<>>
  /\ log' = <<>>
  /\ UNCHANGED <<constructed, dataset_id, dataset_ref>>

\* select_project: self.client.project = project_id
SelectProject(p) ==
  /\ constructed = "ok"
  /\ project' = Set(p)
  /\ op' = [name |-> "select_project", arg |-> <<p>>]
  /\ afterSelect' = SelectedOk
  /\ error' = NoError
  /\ output' = <<>>
  /\ calls' = <<>>
  /\ log' = <<>>
  /\ UNCHANGED <<constructed, dataset_id, dataset_ref, dataset, tables>>

\* select_dataset: id and reference are assigned before the fetch
SelectDataset(d, f) ==
  /\ constructed = "ok"
  /\ LET ref == DatasetReference(Val(project), d)
         r == fetch_dataset_and_tables(ref, dataset, tables, f)
     IN /\ dataset_id' = Set(d)
        /\ dataset_ref' = Set(ref)
        /\ dataset' = r.dataset
        /\ tables' = r.tables
        /\ error' = r.error
        /\ calls' = r.calls
        /\ log' = r.log
  /\ op' = [name |-> "select_dataset", arg |-> <<d>>]
  /\ afterSelect' = SelectedOk
  /\ output' = <<>>
  /\ UNCHANGED <<constructed, project>>

\* variant: the missing-selection test is absent
print_dataset_info_unchecked(g, did, ds, tbls) ==
  LET id == IF g = None THEN did ELSE g
      head == << <<"Dataset ID", id>> >>
  IN
  IF ds = Unset
  THEN [error |-> Err("AttributeError", "dataset"), output |-> head]
  ELSE [error |-> NoError, output |-> head]

\* print_dataset_info: the lines printed before the call returns or raises
print_dataset_info(g, did, ds, tbls) ==
  IF g = None /\ did = None
  THEN [error |-> Err("ValueError", "No dataset ID provided."), output |-> <<>>]
  ELSE
  LET id == IF g = None THEN did ELSE g
      head == << <<"Dataset ID", id>> >>
  IN
  IF ds = Unset
  THEN [error |-> Err("AttributeError", "dataset"), output |-> head]
  ELSE
  LET m == Val(ds)
      meta == head \o
              << <<"Friendly Name", m.friendly_name>>,
                 <<"Created", m.created>>,
                 <<"Last Modified", m.modified>>,
                 <<"Default Table Expiration", m.default_table_expiration_ms>>,
                 <<"Location", m.location>>,
                 <<"Dataset Description", m.description>> >>
  IN
  IF tbls = Unset
  THEN [error |-> Err("AttributeError", "tables"), output |-> meta]
  ELSE IF Val(tbls) # <<>>
  THEN [error |-> NoError,
        output |-> meta \o << <<"Tables found in", id, Len(Val(tbls))>> >>
                       \o [i \in 1..Len(Val(tbls)) |-> <<"-", Val(tbls)[i].table_id>>]]
  ELSE [error |-> NoError,
        output |-> meta \o << <<"does not have any tables", id>> >>]

PrintDatasetInfo(g) ==
  /\ constructed = "ok"
  /\ LET r == print_dataset_info(g, Val(dataset_id), dataset, tables)
     IN /\ error' = r.error
        /\ output' = r.output
  /\ op' = [name |-> "print_dataset_info", arg |-> <<g>>]
  /\ afterSelect' = SelectedOk
  /\ calls' = <<>>
  /\ log' = <<>>
  /\ UNCHANGED <<constructed, project, dataset_id, dataset_ref, dataset, tables>>

DatasetRow(m) ==
  [dataset_id |-> m.dataset_id,
   friendly_name |-> m.friendly_name,
   created |-> m.created,
   last_modified |-> m.modified,
   default_table_expiration |-> m.default_table_expiration_ms,
   data_location |-> m.location,
   description |-> m.description]

\* variant: a failure inside the loop returns the rows collected so far
RECURSIVE get_datasets_loop_partial(_, _, _, _, _, _)
get_datasets_loop_partial(p, listing, i, failAt, datasets_info, cs) ==
  IF i > Len(listing)
  THEN [error |-> NoError, output |-> datasets_info, calls |-> cs, log |-> <<>>]
  ELSE LET ref == DatasetReference(p, listing[i].dataset_id)
           r == get_dataset(ref, failAt = i + 1)
           c == Call("get_dataset", ref, r)
       IN IF ~r.ok
          THEN [error |-> NoError, output |-> datasets_info,
                calls |-> Append(cs, c), log |-> <<>>]
          ELSE get_datasets_loop_partial(p, listing, i + 1, failAt,
                                 Append(datasets_info, DatasetRow(Val(r.value))),
                                 Append(cs, c))

\* the for loop of get_datasets from the i-th listed dataset on; failAt is
\* the number of the service call that fails (the listing is call 1)
RECURSIVE get_datasets_loop(_, _, _, _, _, _)
get_datasets_loop(p, listing, i, failAt, datasets_info, cs) ==
  IF i > Len(listing)
  THEN [error |-> NoError, output |-> datasets_info, calls |-> cs,
        log |-> <<"info: Starting to fetch datasets.", "info: Finished fetching datasets.">>]
  ELSE LET ref == DatasetReference(p, listing[i].dataset_id)
           r == get_dataset(ref, failAt = i + 1)
           c == Call("get_dataset", ref, r)
       IN IF ~r.ok
          THEN [error |-> NoError, output |-> <<>>, calls |-> Append(cs, c),
                log |-> <<"info: Starting to fetch datasets.", "error: An error occurred while fetching datasets">>]
          ELSE get_datasets_loop(p, listing, i + 1, failAt,
                                 Append(datasets_info, DatasetRow(Val(r.value))),
                                 Append(cs, c))

\* get_datasets: every exception is caught and an empty frame returned
get_datasets(p, failAt) ==
  LET r == list_datasets(p, failAt = 1)
      c == Call("list_datasets", p, r)
  IN
  IF ~r.ok
  THEN [error |-> NoError, output |-> <<>>, calls |-> <<c>>,
        log |-> <<"info: Starting to fetch datasets.", "error: An error occurred while fetching datasets">>]
  ELSE IF Val(r.value) # <<>>
  THEN get_datasets_loop(p, Val(r.value), 1, failAt, <<>>, <<c>>)
  ELSE [error |-> NoError, output |-> <<>>, calls |-> <<c>>,
        log |-> <<"info: Starting to fetch datasets.", "warning: Project does not contain any datasets.">>]

GetDatasets(failAt) ==
  /\ constructed = "ok"
  /\ failAt \in 0..(Len(RemoteDatasets(Val(project))) + 1)
  /\ LET r == get_datasets(Val(project), failAt)
     IN /\ error' = r.error
        /\ output' = r.output
        /\ calls' = r.calls
        /\ log' = r.log
  /\ op' = [name |-> "get_datasets", arg |-> <<>>]
  /\ afterSelect' = SelectedOk
  /\ UNCHANGED <<constructed, project, dataset_id, dataset_ref, dataset, tables>>

\* get_table_details: NotFound becomes ValueError, anything else passes
get_table_details(ref, t, schema, fail) ==
  IF ref = Unset
  THEN [error |-> Err("AttributeError", "dataset_ref"), output |-> <<>>, calls |-> <<>>]
  ELSE
  LET r == get_table(Val(ref), t, schema, fail)
      c == Call("get_table", <<Val(ref)[1], Val(ref)[2], t>>, r)
  IN
  IF ~r.ok
  THEN [error |-> IF r.error.type = "NotFound"
                  THEN Err("ValueError", "Table does not exist.")
                  ELSE r.error,
        output |-> <<>>, calls |-> <<c>>]
  ELSE LET tb == Val(r.value) IN
       [error |-> NoError,
        output |-> << <<"Table ID", tb.table_id>>,
                      <<"Friendly Name", tb.friendly_name>>,
                      <<"Created", tb.created>>,
                      <<"Last Modified", tb.modified>>,
                      <<"Table Expiration", tb.expires>>,
                      <<"Number of Rows", tb.num_rows>>,
                      <<"Number of Bytes", tb.num_bytes>>,
                      <<"Table Description", tb.description>> >>,
        calls |-> <<c>>]

GetTableDetails(t, schema, fail) ==
  /\ constructed = "ok"
  /\ LET r == get_table_details(dataset_ref, t, schema, fail)
     IN /\ error' = r.error
        /\ output' = r.output
        /\ calls' = r.calls
  /\ op' = [name |-> "get_table_details", arg |-> <<t>>]
  /\ afterSelect' = SelectedOk
  /\ log' = <<>>
  /\ UNCHANGED <<constructed, project, dataset_id, dataset_ref, dataset, tables>>

\* variant: nested fields are appended to the top-level sequence
RECURSIVE fields_info_flat(_)
fields_info_flat(schema) ==
  IF schema = <<>> THEN <<>>
  ELSE <<[field_name |-> Head(schema).name,
          type |-> Head(schema).field_type,
          mode |-> Head(schema).mode,
          description |-> Head(schema).description,
          fields |-> Head(schema).fields]>>
       \o fields_info_flat(Head(schema).fields)
       \o fields_info_flat(Tail(schema))

\* the for loop of get_table_schema: one row per field of table.schema
RECURSIVE fields_info(_)
fields_info(schema) ==
  IF schema = <<>> THEN <<>>
  ELSE <<[field_name |-> Head(schema).name,
          type |-> Head(schema).field_type,
          mode |-> Head(schema).mode,
          description |-> Head(schema).description,
          fields |-> Head(schema).fields]>> \o fields_info(Tail(schema))

\* get_table_schema: no exception is caught
get_table_schema(ref, t, schema, fail) ==
  IF ref = Unset
  THEN [error |-> Err("AttributeError", "dataset_ref"), output |-> <<>>, calls |-> <<>>]
  ELSE
  LET r == get_table(Val(ref), t, schema, fail)
      c == Call("get_table", <<Val(ref)[1], Val(ref)[2], t>>, r)
  IN
  IF ~r.ok
  THEN [error |-> r.error, output |-> <<>>, calls |-> <<c>>]
  ELSE [error |-> NoError, output |-> fields_info(Val(r.value).schema), calls |-> <<c>>]

GetTableSchema(t, schema, fail) ==
  /\ constructed = "ok"
  /\ LET r == get_table_schema(dataset_ref, t, schema, fail)
     IN /\ error' = r.error
        /\ output' = r.output
        /\ calls' = r.calls
  /\ op' = [name |-> "get_table_schema", arg |-> <<t>>]
  /\ afterSelect' = SelectedOk
  /\ log' = <<>>
  /\ UNCHANGED <<constructed, project, dataset_id, dataset_ref, dataset, tables>>

Next ==
  \/ \E p \in Projects, d \in DatasetIds \cup {None},
        cred \in CredentialOutcomes, f \in FetchFailures : Connect(p, d, cred, f)
  \/ \E p \in Projects : SelectProject(p)
  \/ \E d \in DatasetIds, f \in FetchFailures : SelectDataset(d, f)
  \/ \E g \in DatasetIds \cup {None} : PrintDatasetInfo(g)
  \/ \E failAt \in 0..3 : GetDatasets(failAt)
  \/ \E t \in TableIds, fail \in BOOLEAN :
        \E schema \in ResponseSchemas(dataset_ref, t, fail) : GetTableDetails(t, schema, fail)
  \/ \E t \in TableIds, fail \in BOOLEAN :
        \E schema \in ResponseSchemas(dataset_ref, t, fail) : GetTableSchema(t, schema, fail)

Spec == Init /\ [][Next]_vars
\* ------------------------------------------------------------- properties

\* does the printed report `out` carry identifier id, the attributes of the
\* metadata record m and the count and identifiers of the table list tbls
ReportShows(out, id, m, tbls) ==
  /\ Len(out) = 8 + Len(tbls)
  /\ out[1] = <<"Dataset ID", id>>
  /\ out[2] = <<"Friendly Name", m.friendly_name>>
  /\ out[3] = <<"Created", m.created>>
  /\ out[4] = <<"Last Modified", m.modified>>
  /\ out[5] = <<"Default Table Expiration", m.default_table_expiration_ms>>
  /\ out[6] = <<"Location", m.location>>
  /\ out[7] = <<"Dataset Description", m.description>>
  /\ IF tbls = <<>>
     THEN out[8] = <<"does not have any tables", id>>
     ELSE /\ out[8] = <<"Tables found in", id, Len(tbls)>>
          /\ \A i \in 1..Len(tbls) : out[8 + i] = <<"-", tbls[i]>>

\* C1: whenever a dataset id is set on a usable client, the cached metadata
\* and every cached table summary belong to that dataset id.
C1_ContextMatchesDatasetId ==
  (constructed = "ok" /\ dataset_id # Unset /\ Truthy(Val(dataset_id)))
  => /\ dataset # Unset
     /\ Val(dataset).dataset_id = Val(dataset_id)
     /\ tables # Unset
     /\ \A i \in 1..Len(Val(tables)) :
           Val(tables)[i].dataset_id = Val(dataset_id)

\* C2: connecting with a dataset id the service does not have raises
\* NotFound, and at that moment dataset_id, dataset_ref, dataset and tables
\* are either all set or all unset.
C2_NoPartialContextOnConnect ==
  (/\ op.name = "connect"
   /\ op.arg[3] = "ok"
   /\ Truthy(op.arg[2])
   /\ ~DatasetExists(op.arg[1], op.arg[2])
   /\ error.type # "ServiceError")
  => /\ error.type = "NotFound"
     /\ \/ (dataset_id = Unset /\ dataset_ref = Unset
            /\ dataset = Unset /\ tables = Unset)
        \/ (dataset_id # Unset /\ dataset_ref # Unset
            /\ dataset # Unset /\ tables # Unset)

\* C3: print_dataset_info(g), or print_dataset_info() with g the selected
\* id, reports the metadata and the tables of dataset g itself, whatever
\* dataset the client has cached.
C3_ReportsTheNamedDataset ==
  (op.name = "print_dataset_info" /\ constructed = "ok")
  => LET id == IF op.arg[1] = None THEN Val(dataset_id) ELSE op.arg[1] IN
     (id # None /\ \E p \in Projects : DatasetExists(p, id))
     => /\ error = NoError
        /\ \E p \in Projects :
              /\ DatasetExists(p, id)
              /\ ReportShows(output, id, DatasetMeta(p, id), RemoteTables(p, id))

\* C4: a print_dataset_info() that directly follows a successful
\* select_dataset(d) reports d with the metadata and the table list the
\* service returned to that select_dataset.
C4_SelectThenDescribe ==
  [][(SelectedOk /\ op'.name = "print_dataset_info" /\ op'.arg[1] = None)
     => /\ error' = NoError
        /\ LET listed == Val(calls[2].result.value) IN
           ReportShows(output', op.arg[1], Val(calls[1].result.value),
                       [i \in 1..Len(listed) |-> listed[i].table_id])]_vars

C4_Witness ==
  /\ afterSelect
  /\ op.name = "print_dataset_info"
  /\ op.arg[1] = None
  /\ error = NoError
  /\ Len(output) > 8

\* C5: get_datasets never raises; it returns nothing when any service call
\* failed (even after rows were collected) and otherwise one row per
\* enumerated dataset, in enumeration order.
C5_GetDatasetsNeverRaises ==
  op.name = "get_datasets"
  => /\ error = NoError
     /\ calls # <<>>
     /\ IF \E i \in 1..Len(calls) : ~calls[i].result.ok
        THEN output = <<>>
        ELSE LET listing == Val(calls[1].result.value) IN
             /\ Len(output) = Len(listing)
             /\ \A i \in 1..Len(listing) :
                   /\ output[i].dataset_id = listing[i].dataset_id
                   /\ output[i].friendly_name =
                        DatasetMeta(listing[i].project, listing[i].dataset_id).friendly_name

C5_Witness ==
  /\ op.name = "get_datasets"
  /\ Len(calls) >= 3
  /\ calls[Len(calls) - 1].result.ok
  /\ ~calls[Len(calls)].result.ok
  /\ output = <<>>
  /\ error = NoError

\* C6: select_project(p) sets the project to p, calls nothing, and leaves
\* dataset_id, dataset_ref, dataset and tables as they were.
C6_SelectProjectFrame ==
  [][op'.name = "select_project"
     => /\ project' = Set(op'.arg[1])
        /\ error' = NoError
        /\ calls' = <<>>
        /\ constructed' = constructed
        /\ dataset_id' = dataset_id
        /\ dataset_ref' = dataset_ref
        /\ dataset' = dataset
        /\ tables' = tables]_vars

C6_Witness ==
  /\ op.name = "select_project"
  /\ dataset # Unset
  /\ tables # Unset
  /\ Val(dataset).project # Val(project)

C8_AuthenticationError ==
  (op.name = "connect" /\ op.arg[3] = "DefaultCredentialsError")
  => /\ error = Err("DefaultCredentialsError", AuthInstructions)
     /\ constructed = "failed"
     /\ calls = <<>>
     /\ dataset_ref = Unset
     /\ dataset = Unset
     /\ tables = Unset

C8_Witness ==
  /\ op.name = "connect"
  /\ op.arg[3] = "DefaultCredentialsError"
  /\ DatasetExists(op.arg[1], op.arg[2])
  /\ error.type = "DefaultCredentialsError"

\* C9: with a dataset id on the client, get_table_details of a table of the
\* cached list succeeds, reports
\* that table id and looks the table up in the project and dataset the
\* list was taken from.
C9_ListedTablesAreDescribed ==
  (/\ op.name = "get_table_details"
   /\ Truthy(Val(dataset_id))
   /\ tables # Unset
   /\ \E i \in 1..Len(Val(tables)) : Val(tables)[i].table_id = op.arg[1]
   /\ error.type # "ServiceError")
  => /\ error = NoError
     /\ output # <<>>
     /\ output[1] = <<"Table ID", op.arg[1]>>
     /\ \E i \in 1..Len(Val(tables)) :
           calls[1].arg = <<Val(tables)[i].project, Val(tables)[i].dataset_id,
                            op.arg[1]>>

\* C10: get_table_schema returns one row per top-level field of the schema
\* the service returned, in order, the nested fields kept inside the row.
C10_SchemaRows ==
  (op.name = "get_table_schema" /\ error = NoError)
  => LET schema == Val(calls[1].result.value).schema IN
     /\ Len(output) = Len(schema)
     /\ \A i \in 1..Len(schema) :
           /\ output[i].field_name = schema[i].name
           /\ output[i].type = schema[i].field_type
           /\ output[i].mode = schema[i].mode
           /\ output[i].description = schema[i].description
           /\ output[i].fields = schema[i].fields

C10_Witness ==
  /\ op.name = "get_table_schema"
  /\ error = NoError
  /\ Len(output) = 2
  /\ output[1].fields = <<>>
  /\ output[2].fields # <<>>
====
